---- MODULE Spec2Model ----
(***************************************************************************)
(* Model of improve_seo.py: the category resolver (get_category_info),     *)
(* the document annotator (improve_seo) and the file loop                  *)
(* (process_html_files).                                                   *)
(*                                                                         *)
(* Text is modelled with TLA+ strings (Len, \o and SubSeq apply to them).  *)
(* A parsed document (the BeautifulSoup tree) is a record: whether an      *)
(* <html> element exists and its lang attribute, whether a <head> exists,  *)
(* the children of <head> in order, and the elements outside <head> in     *)
(* document order.                                                         *)
(***************************************************************************)
EXTENDS Integers, Sequences, FiniteSets, TLC

VARIABLES
    \* ---- get_category_info ----
    filename,           \* the argument of get_category_info
    info,               \* the value it returned
    rpc,                \* "call" before the call, "returned" after it
    \* ---- improve_seo ----
    html_content,       \* the parsed input document
    afile,              \* the filename argument
    first,              \* outcome of improve_seo(html_content, afile)
    second,             \* outcome of improve_seo(first.out, afile)
    apc,                \* "input", "once", "twice"
    \* ---- process_html_files ----
    entries,            \* os.listdir('.') in the order the OS returns it
    disk,               \* entry name -> file content
    disk0,              \* the disk at the start of the run
    backupDir,          \* does /tmp/seo_backup exist
    backup,             \* entry name -> content of /tmp/seo_backup/<name>
    html_files,         \* the list built at line 181
    idx,                \* position of the for loop in html_files
    pc,                 \* position inside the loop body
    original_content,   \* local of the loop body
    improved_content,   \* local of the loop body
    reports,            \* the per-file lines printed so far
    faults              \* I/O faults injected so far

rvars == <<filename, info, rpc>>
avars == <<html_content, afile, first, second, apc>>
pvars == <<entries, disk, disk0, backupDir, backup, html_files, idx, pc,
           original_content, improved_content, reports, faults>>
vars == <<rvars, avars, pvars>>

\* ------------------------------------------------------------------------
\* Bounds of the model
\* ------------------------------------------------------------------------
MaxFrags == 2       \* a filename is built from at most this many fragments
MaxHead == 1        \* children of <head> in an input document
MaxBody == 1        \* elements outside <head> in an input document
MaxFiles == 3       \* directory entries
MaxFaults == 1      \* I/O faults the environment injects in one run

\* ------------------------------------------------------------------------
\* Strings
\* ------------------------------------------------------------------------
Min(a, b) == IF a < b THEN a ELSE b

UpperCase == "ABCDEFGHIJKLMNOPQRSTUVWXYZ"
LowerCase == "abcdefghijklmnopqrstuvwxyz"

UpperLetters == {SubSeq(UpperCase, i, i) : i \in 1..Len(UpperCase)}

\* str.lower() on one character
lowerChar(c) ==
    IF c \in UpperLetters
    THEN LET i == CHOOSE j \in 1..Len(UpperCase) : SubSeq(UpperCase, j, j) = c
         IN  SubSeq(LowerCase, i, i)
    ELSE c

\* str.lower() from position i on
RECURSIVE lowerFrom(_, _)
lowerFrom(s, i) ==
    IF i > Len(s) THEN ""
    ELSE lowerChar(SubSeq(s, i, i)) \o lowerFrom(s, i + 1)

\* str.lower(): a string without upper-case letters is returned as it is
lower(s) ==
    IF \A i \in 1..Len(s) : SubSeq(s, i, i) \notin UpperLetters THEN s
    ELSE lowerFrom(s, 1)

\* Python's `k in s` on strings
contains(k, s) ==
    \E i \in 1..(Len(s) - Len(k) + 1) : SubSeq(s, i, i + Len(k) - 1) = k

\* str.endswith
endswith(s, suffix) ==
    /\ Len(s) >= Len(suffix)
    /\ SubSeq(s, Len(s) - Len(suffix) + 1, Len(s)) = suffix

\* ------------------------------------------------------------------------
\* The category table
\* ------------------------------------------------------------------------
ALGORITHM_CATEGORIES == <<
    [key |-> "sorting",
     keywords |-> "sorting algorithm, sort, bubble sort, merge sort, quick sort, heap sort, insertion sort, selection sort, radix sort, counting sort",
     description |-> "Learn about sorting algorithms and their implementations with interactive visualizations"],
    [key |-> "hashing",
     keywords |-> "hashing algorithm, hash function, cryptographic hash, md5, sha, bcrypt, ripemd, blake",
     description |-> "Explore hashing algorithms and their applications in cryptography and data structures"],
    [key |-> "distributed",
     keywords |-> "distributed consensus, consensus algorithm, raft, paxos, epaxos, zab, 2pc, 3pc, bft, vsr",
     description |-> "Understand distributed consensus algorithms used in distributed systems and databases"],
    [key |-> "garbage",
     keywords |-> "garbage collection, gc algorithm, mark and sweep, generational gc, reference counting",
     description |-> "Learn about garbage collection algorithms used in programming language runtimes"],
    [key |-> "page",
     keywords |-> "page replacement algorithm, fifo, lru, lfu, mru, nru, second chance",
     description |-> "Study page replacement algorithms used in operating systems memory management"],
    [key |-> "probabilistic",
     keywords |-> "probabilistic data structure, bloom filter, count-min sketch, hyperloglog, flajolet-martin",
     description |-> "Discover probabilistic data structures for approximate computing and big data"],
    [key |-> "quantum",
     keywords |-> "quantum computing, quantum algorithm, shor code, quantum error correction",
     description |-> "Explore quantum computing algorithms and error correction techniques"],
    [key |-> "cryptography",
     keywords |-> "cryptography, encryption, rsa, diffie-hellman, elgamal, merkle tree, homomorphic encryption",
     description |-> "Learn about cryptographic algorithms and their applications in security"],
    [key |-> "machine",
     keywords |-> "machine learning algorithm, linear regression, logistic regression, decision tree, random forest, svm, knn, naive bayes, clustering, pca",
     description |-> "Study machine learning algorithms and their practical applications"],
    [key |-> "btree",
     keywords |-> "b-tree, b+ tree, data structure, tree algorithm, database index",
     description |-> "Understand B-tree data structures and their use in database indexing"] >>

DEFAULT_CATEGORY ==
    [keywords |-> "algorithm, data structure, computer science, visualization, interactive",
     description |-> "Interactive algorithm visualization platform for learning computer science concepts"]

\* the value stored under a key of the table: the dict without its key
InfoOf(entry) ==
    [keywords |-> entry.keywords, description |-> entry.description]

\* the for loop of get_category_info, from table position i on
RECURSIVE ScanCategories(_, _)
ScanCategories(i, filename_lower) ==
    IF i > Len(ALGORITHM_CATEGORIES) THEN DEFAULT_CATEGORY
    ELSE IF contains(ALGORITHM_CATEGORIES[i].key, filename_lower)
         THEN InfoOf(ALGORITHM_CATEGORIES[i])
         ELSE ScanCategories(i + 1, filename_lower)

\* a scan that lets the last matching key win
RECURSIVE ScanCategoriesLastWins(_, _)
ScanCategoriesLastWins(i, filename_lower) ==
    IF i > Len(ALGORITHM_CATEGORIES) THEN DEFAULT_CATEGORY
    ELSE LET rest == ScanCategoriesLastWins(i + 1, filename_lower)
         IN  IF rest /= DEFAULT_CATEGORY THEN rest
             ELSE IF contains(ALGORITHM_CATEGORIES[i].key, filename_lower)
                  THEN InfoOf(ALGORITHM_CATEGORIES[i])
                  ELSE DEFAULT_CATEGORY

get_category_info_last_wins(fname) ==
    ScanCategoriesLastWins(1, lower(fname))

get_category_info(fname) ==
    ScanCategories(1, lower(fname))

\* ------------------------------------------------------------------------
\* Specification of the resolver: one call on a filename
\* ------------------------------------------------------------------------
Fragments ==
    {"sorting", "SORTING", "hashing", "distributed", "garbage", "page",
     "Page", "probabilistic", "quantum", "cryptography", "machine", "btree",
     "BTree", "sort", "pag", "e", "_", "bubble_sort", "raft_consensus",
     "unknown_topic", "merge_sort", "lru_cache"}

RECURSIVE Stems(_)
Stems(n) ==
    IF n = 0 THEN {""}
    ELSE Stems(n - 1) \cup {a \o f : a \in Stems(n - 1), f \in Fragments}

Filenames == {s \o ".html" : s \in Stems(MaxFrags)}

NoInfo == [keywords |-> "", description |-> ""]

\* a document value used where no document exists
NoDoc == [html |-> FALSE, hasLang |-> FALSE, lang |-> "", hasHead |-> FALSE,
          head |-> <<>>, body |-> <<>>]
NoOutcome == [raised |-> FALSE, out |-> NoDoc]

AnnotatorIdle ==
    /\ html_content = NoDoc
    /\ afile = ""
    /\ first = NoOutcome
    /\ second = NoOutcome
    /\ apc = "idle"

ProcessorIdle ==
    /\ entries = <<>>
    /\ disk = <<>>
    /\ disk0 = <<>>
    /\ backupDir = FALSE
    /\ backup = <<>>
    /\ html_files = <<>>
    /\ idx = 0
    /\ pc = "idle"
    /\ original_content = NoDoc
    /\ improved_content = NoDoc
    /\ reports = <<>>
    /\ faults = 0

ResolverIdle ==
    /\ filename = ""
    /\ info = NoInfo
    /\ rpc = "idle"

InitResolve ==
    /\ filename \in Filenames
    /\ info = NoInfo
    /\ rpc = "call"
    /\ AnnotatorIdle
    /\ ProcessorIdle

Resolve ==
    /\ rpc = "call"
    /\ info' = get_category_info(filename)
    /\ rpc' = "returned"
    /\ UNCHANGED <<filename, avars, pvars>>

NextResolve == Resolve

SpecResolve == InitResolve /\ [][NextResolve]_vars

\* ------------------------------------------------------------------------
\* Documents
\* ------------------------------------------------------------------------
\* An element: its tag, the attribute the program selects it by (key, val)
\* and its payload (content attribute, href attribute or text).
Node(tag, key, val, content) ==
    [tag |-> tag, key |-> key, val |-> val, content |-> content]

\* soup.new_tag('meta', attrs={key: val, 'content': content})
new_meta(key, val, content) == Node("meta", key, val, content)

\* every element of the document in document order
DocOrder(doc) == doc.head \o doc.body

\* soup.find(tag, attrs={key: val}) found something
found(doc, tag, key, val) ==
    \E i \in 1..Len(DocOrder(doc)) :
        /\ DocOrder(doc)[i].tag = tag
        /\ DocOrder(doc)[i].key = key
        /\ DocOrder(doc)[i].val = val

\* soup.find('title') and the default of line 100
PageTitle(doc) ==
    IF \E i \in 1..Len(DocOrder(doc)) : DocOrder(doc)[i].tag = "title"
    THEN DocOrder(doc)[CHOOSE i \in 1..Len(DocOrder(doc)) :
                           /\ DocOrder(doc)[i].tag = "title"
                           /\ \A j \in 1..(i - 1) : DocOrder(doc)[j].tag /= "title"].content
    ELSE "Algorithm Visualization"

\* Tag.insert(position, new_child): the position is clamped to the number
\* of children
Insert(contents, position, node) ==
    LET p == Min(position, Len(contents))
    IN  SubSeq(contents, 1, p) \o <<node>> \o SubSeq(contents, p + 1, Len(contents))

\* The state of one call of improve_seo: the tree and whether an exception
\* has been raised (soup.head or soup.html is None and was dereferenced).
Raise(r) == [r EXCEPT !.raised = TRUE]

\* soup.head.insert(position, node)
head_insert(r, position, node) ==
    IF r.raised THEN r
    ELSE IF ~r.soup.hasHead THEN Raise(r)
    ELSE [r EXCEPT !.soup.head = Insert(@, position, node)]

\* soup.head.append(node)
head_append(r, node) ==
    IF r.raised THEN r
    ELSE IF ~r.soup.hasHead THEN Raise(r)
    ELSE [r EXCEPT !.soup.head = Append(@, node)]

\* ------------------------------------------------------------------------
\* generate_structured_data
\* ------------------------------------------------------------------------
BaseUrl == "https://sgkandale.github.io/"

\* json.dumps of a string made of printable ASCII: quote and backslash are
\* escaped
jsonChar(c) ==
    IF c = "\"" THEN "\\\""
    ELSE IF c = "\\" THEN "\\\\"
    ELSE c

RECURSIVE jsonEscapeFrom(_, _)
jsonEscapeFrom(s, i) ==
    IF i > Len(s) THEN ""
    ELSE jsonChar(SubSeq(s, i, i)) \o jsonEscapeFrom(s, i + 1)

\* a string without quote or backslash is its own escaped form
jsonEscape(s) ==
    IF \A i \in 1..Len(s) : SubSeq(s, i, i) \notin {"\"", "\\"} THEN s
    ELSE jsonEscapeFrom(s, 1)

jsonString(s) == "\"" \o jsonEscape(s) \o "\""

generate_structured_data(title, description, url) ==
    "{\n"
    \o "  \"@context\": \"https://schema.org\",\n"
    \o "  \"@type\": \"Article\",\n"
    \o "  \"headline\": " \o jsonString(title) \o ",\n"
    \o "  \"description\": " \o jsonString(description) \o ",\n"
    \o "  \"author\": {\n"
    \o "    \"@type\": \"Person\",\n"
    \o "    \"name\": \"Shantanu Kandale\"\n"
    \o "  },\n"
    \o "  \"publisher\": {\n"
    \o "    \"@type\": \"Organization\",\n"
    \o "    \"name\": \"AlgoViz Hub\",\n"
    \o "    \"logo\": {\n"
    \o "      \"@type\": \"ImageObject\",\n"
    \o "      \"url\": \"https://sgkandale.github.io/favicon.ico\"\n"
    \o "    }\n"
    \o "  },\n"
    \o "  \"mainEntityOfPage\": {\n"
    \o "    \"@type\": \"WebPage\",\n"
    \o "    \"@id\": " \o jsonString(BaseUrl \o url) \o "\n"
    \o "  }\n"
    \o "}"

\* ------------------------------------------------------------------------
\* improve_seo, step by step
\* ------------------------------------------------------------------------
\* lines 106-111, a variant that inserts without looking for an existing tag
AddDescriptionAlways(r, seo_info) ==
    head_insert(r, 0, new_meta("name", "description", seo_info.description))

\* lines 106-111
AddDescription(r, seo_info) ==
    IF r.raised \/ found(r.soup, "meta", "name", "description") THEN r
    ELSE head_insert(r, 0, new_meta("name", "description", seo_info.description))

\* lines 114-119, a variant that inserts without looking for an existing tag
AddKeywordsAlways(r, seo_info) ==
    head_insert(r, 1, new_meta("name", "keywords", seo_info.keywords))

\* lines 114-119, a variant that appends instead of inserting at position 1
AddKeywordsAtEnd(r, seo_info) ==
    IF r.raised \/ found(r.soup, "meta", "name", "keywords") THEN r
    ELSE head_append(r, new_meta("name", "keywords", seo_info.keywords))

\* lines 114-119
AddKeywords(r, seo_info) ==
    IF r.raised \/ found(r.soup, "meta", "name", "keywords") THEN r
    ELSE head_insert(r, 1, new_meta("name", "keywords", seo_info.keywords))

\* lines 122-128
og_tags(page_title, seo_info, fname) ==
    << <<"og:title", page_title>>,
       <<"og:description", seo_info.description>>,
       <<"og:type", "article">>,
       <<"og:url", BaseUrl \o fname>>,
       <<"og:site_name", "AlgoViz Hub">> >>

\* lines 139-144
twitter_tags(page_title, seo_info) ==
    << <<"twitter:card", "summary">>,
       <<"twitter:title", page_title>>,
       <<"twitter:description", seo_info.description>>,
       <<"twitter:site", "@sgkandale">> >>

\* the loops of lines 130-136 (key = "property") and 146-152 (key = "name"),
\* from list position i on
RECURSIVE AddMetaTags(_, _, _, _)
AddMetaTags(r, key, tags, i) ==
    IF i > Len(tags) THEN r
    ELSE LET r1 == IF r.raised \/ found(r.soup, "meta", key, tags[i][1]) THEN r
                   ELSE head_append(r, new_meta(key, tags[i][1], tags[i][2]))
         IN  AddMetaTags(r1, key, tags, i + 1)

\* lines 155-160, a variant whose href is the bare filename
AddCanonicalRelative(r, fname) ==
    IF r.raised \/ found(r.soup, "link", "rel", "canonical") THEN r
    ELSE head_append(r, Node("link", "rel", "canonical", fname))

\* lines 155-160
AddCanonical(r, fname) ==
    IF r.raised \/ found(r.soup, "link", "rel", "canonical") THEN r
    ELSE head_append(r, Node("link", "rel", "canonical", BaseUrl \o fname))

\* lines 163-171
AddStructuredData(r, page_title, seo_info, fname) ==
    IF r.raised \/ found(r.soup, "script", "type", "application/ld+json") THEN r
    ELSE head_append(r, Node("script", "type", "application/ld+json",
             generate_structured_data(page_title, seo_info.description, fname)))

\* lines 174-175, a variant that sets lang whether or not it is present
AddLangAlways(r) ==
    IF r.raised THEN r
    ELSE IF ~r.soup.html THEN Raise(r)
    ELSE [r EXCEPT !.soup.hasLang = TRUE, !.soup.lang = "en"]

\* lines 174-175
AddLang(r) ==
    IF r.raised THEN r
    ELSE IF ~r.soup.html THEN Raise(r)
    ELSE IF r.soup.hasLang THEN r
    ELSE [r EXCEPT !.soup.hasLang = TRUE, !.soup.lang = "en"]

\* improve_seo: the outcome is an exception (raised) or the returned
\* document (out)
improve_seo(content, fname) ==
    LET r0 == [soup |-> content, raised |-> FALSE]
        page_title == PageTitle(content)
        seo_info == get_category_info(fname)
        r1 == AddDescription(r0, seo_info)
        r2 == AddKeywords(r1, seo_info)
        r3 == AddMetaTags(r2, "property", og_tags(page_title, seo_info, fname), 1)
        r4 == AddMetaTags(r3, "name", twitter_tags(page_title, seo_info), 1)
        r5 == AddCanonical(r4, fname)
        r6 == AddStructuredData(r5, page_title, seo_info, fname)
        r7 == AddLang(r6)
    IN  IF r7.raised THEN [raised |-> TRUE, out |-> NoDoc]
        ELSE [raised |-> FALSE, out |-> r7.soup]

\* ------------------------------------------------------------------------
\* Specification of the annotator: improve_seo on a document, then on its
\* own output
\* ------------------------------------------------------------------------
SeqsUpTo(S, n) == UNION {[1..k -> S] : k \in 0..n}

TitleNode(text) == Node("title", "", "", text)

\* elements an input document is built from
Pool ==
    {TitleNode("Merge Sort"),
     TitleNode("Sorting \"fast\""),
     new_meta("name", "description", "X"),
     new_meta("name", "keywords", "K"),
     new_meta("property", "og:title", "T"),
     Node("link", "rel", "canonical", "https://example.org/c"),
     Node("p", "", "", "text")}

\* all thirteen tags the annotator looks for, already present
AllTags ==
    << new_meta("name", "description", "X"),
       new_meta("name", "keywords", "K"),
       new_meta("property", "og:title", "T"),
       new_meta("property", "og:description", "X"),
       new_meta("property", "og:type", "website"),
       new_meta("property", "og:url", "https://example.org/c"),
       new_meta("property", "og:site_name", "S"),
       new_meta("name", "twitter:card", "summary_large_image"),
       new_meta("name", "twitter:title", "T"),
       new_meta("name", "twitter:description", "X"),
       new_meta("name", "twitter:site", "@someone"),
       Node("link", "rel", "canonical", "https://example.org/c"),
       Node("script", "type", "application/ld+json", "{}") >>

Heads == SeqsUpTo(Pool, MaxHead)
Bodies == SeqsUpTo(Pool, MaxBody) \cup {AllTags}

\* <html> absent, present without lang, present with a lang
HtmlShapes ==
    {[html |-> FALSE, hasLang |-> FALSE, lang |-> ""],
     [html |-> TRUE, hasLang |-> FALSE, lang |-> ""],
     [html |-> TRUE, hasLang |-> TRUE, lang |-> "en"],
     [html |-> TRUE, hasLang |-> TRUE, lang |-> "fr"]}

Doc(shape, hasHead, head, body) ==
    [html |-> shape.html, hasLang |-> shape.hasLang, lang |-> shape.lang,
     hasHead |-> hasHead, head |-> head, body |-> body]

Docs ==
    {Doc(sh, TRUE, h, b) : sh \in HtmlShapes, h \in Heads, b \in Bodies}
    \cup {Doc(sh, FALSE, <<>>, b) : sh \in HtmlShapes, b \in Bodies}

AnnotatedFiles == {"merge_sort.html", "sorting_page.html"}

InitAnnotate ==
    /\ html_content \in Docs
    /\ afile \in AnnotatedFiles
    /\ first = NoOutcome
    /\ second = NoOutcome
    /\ apc = "input"
    /\ ResolverIdle
    /\ ProcessorIdle

Annotate ==
    /\ apc = "input"
    /\ first' = improve_seo(html_content, afile)
    /\ apc' = "once"
    /\ UNCHANGED <<html_content, afile, second, rvars, pvars>>

AnnotateAgain ==
    /\ apc = "once"
    /\ ~first.raised
    /\ second' = improve_seo(first.out, afile)
    /\ apc' = "twice"
    /\ UNCHANGED <<html_content, afile, first, rvars, pvars>>

NextAnnotate == Annotate \/ AnnotateAgain

SpecAnnotate == InitAnnotate /\ [][NextAnnotate]_vars

\* ------------------------------------------------------------------------
\* Properties of the resolver
\* ------------------------------------------------------------------------
DeclaredOrder ==
    <<"sorting", "hashing", "distributed", "garbage", "page", "probabilistic",
      "quantum", "cryptography", "machine", "btree">>

KeyMatches(i) == contains(DeclaredOrder[i], lower(filename))

\* C1: get_category_info always returns a value; it is the entry of the
\* first key, in the declared order, that is a substring of the lower-cased
\* filename, and the default entry when no key is a substring.
C1_FirstDeclaredMatchWins ==
    rpc = "returned" =>
        /\ Len(ALGORITHM_CATEGORIES) = Len(DeclaredOrder)
        /\ \A i \in 1..Len(DeclaredOrder) :
               ALGORITHM_CATEGORIES[i].key = DeclaredOrder[i]
        /\ \/ \E i \in 1..Len(DeclaredOrder) :
                  /\ KeyMatches(i)
                  /\ \A j \in 1..(i - 1) : ~KeyMatches(j)
                  /\ info = InfoOf(ALGORITHM_CATEGORIES[i])
           \/ /\ \A i \in 1..Len(DeclaredOrder) : ~KeyMatches(i)
              /\ info = DEFAULT_CATEGORY
        /\ (contains("SORTING", filename) =>
               info = InfoOf(ALGORITHM_CATEGORIES[1]))
        /\ (contains("BTree", filename) /\ ~(\E i \in 1..9 : KeyMatches(i)) =>
               info = InfoOf(ALGORITHM_CATEGORIES[10]))

\* a filename with two keys, the later-declared one first in the name
C1_Witness ==
    /\ rpc = "returned"
    /\ filename = "pagesorting.html"
    /\ info = InfoOf(ALGORITHM_CATEGORIES[1])

\* C2: bubble_sort.html resolves to the sorting category, raft_consensus.html
\* to the distributed category, unknown_topic.html to the default category,
\* and merge_sort.html gets the sorting description.
C2_SpecExamples ==
    rpc = "returned" =>
        /\ (filename = "bubble_sort.html" =>
               info = InfoOf(ALGORITHM_CATEGORIES[1]))
        /\ (filename = "raft_consensus.html" =>
               info = InfoOf(ALGORITHM_CATEGORIES[3]))
        /\ (filename = "unknown_topic.html" => info = DEFAULT_CATEGORY)
        /\ (filename = "merge_sort.html" =>
               info.description = "Learn about sorting algorithms and their implementations with interactive visualizations")

\* ------------------------------------------------------------------------
\* Properties of the annotator
\* ------------------------------------------------------------------------
IsTag(n, tag, key, val) == n.tag = tag /\ n.key = key /\ n.val = val

IsDescription(n) == IsTag(n, "meta", "name", "description")
IsKeywords(n) == IsTag(n, "meta", "name", "keywords")

\* the elements of a document selected by a test, in document order
Selected(doc, Test(_)) == SelectSeq(DocOrder(doc), Test)

Returned == apc \in {"once", "twice"} /\ ~first.raised

C4_DescriptionKept ==
    (Returned /\ Len(Selected(html_content, IsDescription)) >= 1) =>
        /\ Selected(first.out, IsDescription) = Selected(html_content, IsDescription)
        /\ (Len(Selected(html_content, IsDescription)) = 1 =>
               /\ Len(Selected(first.out, IsDescription)) = 1
               /\ Selected(first.out, IsDescription)[1].content
                      = Selected(html_content, IsDescription)[1].content)

\* one description meta with content X in the head, and tags were added
C4_Witness ==
    /\ Returned
    /\ html_content.head = <<new_meta("name", "description", "X")>>
    /\ html_content.body = <<>>
    /\ Len(first.out.head) > 1
    /\ Selected(first.out, IsDescription) = <<new_meta("name", "description", "X")>>

\* the selectors of the thirteen tags, in the order the claim lists them
ExpectedSelectors ==
    << <<"meta", "name", "description">>,
       <<"meta", "name", "keywords">>,
       <<"meta", "property", "og:title">>,
       <<"meta", "property", "og:description">>,
       <<"meta", "property", "og:type">>,
       <<"meta", "property", "og:url">>,
       <<"meta", "property", "og:site_name">>,
       <<"meta", "name", "twitter:card">>,
       <<"meta", "name", "twitter:title">>,
       <<"meta", "name", "twitter:description">>,
       <<"meta", "name", "twitter:site">>,
       <<"link", "rel", "canonical">>,
       <<"script", "type", "application/ld+json">> >>

IsSeoTag(n) == n.tag \in {"meta", "link", "script"}
IsCanonical(n) == IsTag(n, "link", "rel", "canonical")

\* the input of the merge_sort.html scenario: <html> without lang, a head
\* holding only a title, and no meta, link, script or title elsewhere
MinimalInput ==
    /\ html_content.html
    /\ ~html_content.hasLang
    /\ html_content.hasHead
    /\ Len(html_content.head) = 1
    /\ html_content.head[1].tag = "title"
    /\ \A i \in 1..Len(html_content.body) : html_content.body[i].tag = "p"

\* C5: on the minimal input the output head holds, in this order, the
\* description, the keywords, the 5 Open Graph metas, the 4 Twitter metas,
\* one canonical link to the base URL followed by the filename and one
\* JSON-LD script, and <html> has lang="en".
C5_MinimalHead ==
    (apc \in {"once", "twice"} /\ MinimalInput) =>
        LET tags == SelectSeq(first.out.head, IsSeoTag)
        IN  /\ ~first.raised
            /\ Len(tags) = Len(ExpectedSelectors)
            /\ \A i \in 1..Len(tags) :
                   <<tags[i].tag, tags[i].key, tags[i].val>> = ExpectedSelectors[i]
            /\ tags[12].content = "https://sgkandale.github.io/" \o afile
            /\ first.out.hasLang /\ first.out.lang = "en"

C5_Witness ==
    /\ apc = "once"
    /\ afile = "merge_sort.html"
    /\ MinimalInput
    /\ html_content.head = <<TitleNode("Merge Sort")>>
    /\ html_content.body = <<>>
    /\ ~first.raised
    /\ Len(first.out.head) = 14

\* C7: a document without a <head> makes improve_seo raise; it never
\* returns a document for it.
C7_MissingHeadRaises ==
    (apc \in {"once", "twice"} /\ ~html_content.hasHead) => first.raised

\* C8: an <html> without lang gets lang="en"; an existing lang (such as
\* "fr") is kept.
C8_Lang ==
    Returned =>
        /\ first.out.html /\ first.out.hasLang
        /\ (~html_content.hasLang => first.out.lang = "en")
        /\ (html_content.hasLang => first.out.lang = html_content.lang)

\* <html lang="fr"> went through a pass that added tags
C8_Witness ==
    /\ Returned
    /\ html_content.hasLang /\ html_content.lang = "fr"
    /\ Len(first.out.head) > Len(html_content.head)
    /\ first.out.lang = "fr"

HasHeadInput == html_content.hasHead

ResolvedKeywords == new_meta("name", "keywords", get_category_info(afile).keywords)
ResolvedDescription ==
    new_meta("name", "description", get_category_info(afile).description)

\* C9 as stated: with no keywords meta in the input the inserted one is at
\* index 1 of the output head, and with no description meta in the input the
\* inserted one is at index 0, for every head content.
C9_KeywordsSecondChild ==
    (Returned /\ HasHeadInput) =>
        /\ (Len(Selected(html_content, IsKeywords)) = 0 =>
               /\ Len(first.out.head) >= 2
               /\ first.out.head[2] = ResolvedKeywords)
        /\ (Len(Selected(html_content, IsDescription)) = 0 =>
               first.out.head[1] = ResolvedDescription)

\* C9 amended: the inserted keywords meta is at index 1 unless the input
\* head is empty and a description meta exists outside it, in which case it
\* is at index 0; an inserted description meta is at index 0.
C9_KeywordsPosition ==
    (Returned /\ HasHeadInput) =>
        /\ (Len(Selected(html_content, IsKeywords)) = 0 =>
               LET clamped == /\ html_content.head = <<>>
                              /\ Len(Selected(html_content, IsDescription)) > 0
                   at == IF clamped THEN 1 ELSE 2
               IN  /\ Len(first.out.head) >= at
                   /\ first.out.head[at] = ResolvedKeywords
                   /\ Len(Selected(first.out, IsKeywords)) = 1)
        /\ (Len(Selected(html_content, IsDescription)) = 0 =>
               first.out.head[1] = ResolvedDescription)

\* an empty head with the description meta in the body: keywords lands first
C9_Witness ==
    /\ Returned
    /\ html_content.hasHead
    /\ html_content.head = <<>>
    /\ html_content.body = <<new_meta("name", "description", "X")>>
    /\ first.out.head[1] = ResolvedKeywords

\* ------------------------------------------------------------------------
\* process_html_files
\* ------------------------------------------------------------------------
\* What a path holds: a text (a document), the remains of a write that
\* failed after open(..., 'w') truncated the file, or nothing.
Text(doc) == [state |-> "text", doc |-> doc]
Partial == [state |-> "partial", doc |-> NoDoc]
Absent == [state |-> "absent", doc |-> NoDoc]

\* line 181: the entries of the listing that end in .html, in listing order
IsHtmlFile(f) == endswith(f, ".html")
ListHtmlFiles(listing) == SelectSeq(listing, IsHtmlFile)

\* the file of the current iteration
CurrentFile == html_files[idx]

\* the per-file line printed at line 202 (ok) or line 205 (not ok); `at`
\* stands for the message of the exception
Report(f, ok, at) == [file |-> f, ok |-> ok, at |-> at]

\* the for loop moves on to the next file, or ends
NextIteration ==
    /\ idx' = idx + 1
    /\ pc' = IF idx + 1 > Len(html_files) THEN "done" ELSE "read"
    /\ original_content' = NoDoc
    /\ improved_content' = NoDoc

\* the except clause of lines 204-205, then the next iteration
Except(at) ==
    /\ reports' = Append(reports, Report(CurrentFile, FALSE, at))
    /\ NextIteration

\* lines 181-185
Start ==
    /\ pc = "start"
    /\ html_files' = ListHtmlFiles(entries)
    /\ idx' = 1
    /\ pc' = IF Len(ListHtmlFiles(entries)) = 0 THEN "done" ELSE "read"
    /\ UNCHANGED <<entries, disk, disk0, backupDir, backup, original_content,
                   improved_content, reports, faults, rvars, avars>>

\* lines 188-189
ReadOk ==
    /\ pc = "read"
    /\ disk[CurrentFile].state = "text"
    /\ original_content' = disk[CurrentFile].doc
    /\ pc' = "backup"
    /\ UNCHANGED <<entries, disk, disk0, backupDir, backup, html_files, idx,
                   improved_content, reports, faults, rvars, avars>>

\* lines 188-189 raise (permissions, decoding)
ReadFail ==
    /\ pc = "read"
    /\ faults < MaxFaults
    /\ faults' = faults + 1
    /\ Except("read")
    /\ UNCHANGED <<entries, disk, disk0, backupDir, backup, html_files,
                   rvars, avars>>

\* lines 192-193 with the write left out
BackupSkipped ==
    /\ pc = "backup"
    /\ backupDir
    /\ pc' = "improve"
    /\ UNCHANGED <<entries, disk, disk0, backupDir, backup, html_files, idx,
                   original_content, improved_content, reports, faults,
                   rvars, avars>>

\* lines 192-193
BackupOk ==
    /\ pc = "backup"
    /\ backupDir
    /\ backup' = [backup EXCEPT ![CurrentFile] = Text(original_content)]
    /\ pc' = "improve"
    /\ UNCHANGED <<entries, disk, disk0, backupDir, html_files, idx,
                   original_content, improved_content, reports, faults,
                   rvars, avars>>

\* line 192 raises: the backup directory does not exist
BackupNoDir ==
    /\ pc = "backup"
    /\ ~backupDir
    /\ Except("backup")
    /\ UNCHANGED <<entries, disk, disk0, backupDir, backup, html_files,
                   faults, rvars, avars>>

\* line 193 raises after line 192 truncated the backup file
BackupWriteFail ==
    /\ pc = "backup"
    /\ backupDir
    /\ faults < MaxFaults
    /\ faults' = faults + 1
    /\ backup' = [backup EXCEPT ![CurrentFile] = Partial]
    /\ Except("backup")
    /\ UNCHANGED <<entries, disk, disk0, backupDir, html_files, rvars, avars>>

\* line 196 returns
ImproveOk ==
    /\ pc = "improve"
    /\ ~improve_seo(original_content, CurrentFile).raised
    /\ improved_content' = improve_seo(original_content, CurrentFile).out
    /\ pc' = "write"
    /\ UNCHANGED <<entries, disk, disk0, backupDir, backup, html_files, idx,
                   original_content, reports, faults, rvars, avars>>

\* line 196 raises
ImproveRaise ==
    /\ pc = "improve"
    /\ improve_seo(original_content, CurrentFile).raised
    /\ Except("improve")
    /\ UNCHANGED <<entries, disk, disk0, backupDir, backup, html_files,
                   faults, rvars, avars>>

\* lines 199-202
WriteOk ==
    /\ pc = "write"
    /\ disk' = [disk EXCEPT ![CurrentFile] = Text(improved_content)]
    /\ reports' = Append(reports, Report(CurrentFile, TRUE, ""))
    /\ NextIteration
    /\ UNCHANGED <<entries, disk0, backupDir, backup, html_files, faults,
                   rvars, avars>>

\* line 199 raises: the file cannot be opened for writing
WriteOpenFail ==
    /\ pc = "write"
    /\ faults < MaxFaults
    /\ faults' = faults + 1
    /\ Except("write")
    /\ UNCHANGED <<entries, disk, disk0, backupDir, backup, html_files,
                   rvars, avars>>

\* line 200 raises after line 199 truncated the file
WriteWriteFail ==
    /\ pc = "write"
    /\ faults < MaxFaults
    /\ faults' = faults + 1
    /\ disk' = [disk EXCEPT ![CurrentFile] = Partial]
    /\ Except("write")
    /\ UNCHANGED <<entries, disk0, backupDir, backup, html_files, rvars, avars>>

\* ------------------------------------------------------------------------
\* Specification of the file loop: one run over a directory
\* ------------------------------------------------------------------------
EntryNames ==
    {"merge_sort.html", "sorting_page.html", "unknown_topic.html", "notes.txt"}

\* os.listdir returns the entries in arbitrary order
Listings ==
    {l \in SeqsUpTo(EntryNames, Min(MaxFiles, Cardinality(EntryNames))) :
        \A i, j \in 1..Len(l) : i /= j => l[i] /= l[j]}

\* contents of the files at the start of a run
MinimalDoc ==
    Doc([html |-> TRUE, hasLang |-> FALSE, lang |-> ""], TRUE,
        <<TitleNode("Merge Sort")>>, <<>>)
HeadlessDoc ==
    Doc([html |-> TRUE, hasLang |-> FALSE, lang |-> ""], FALSE,
        <<>>, <<Node("p", "", "", "text")>>)
HeadlessTaggedDoc ==
    Doc([html |-> TRUE, hasLang |-> FALSE, lang |-> ""], FALSE,
        <<>>, AllTags)

FileDocs == {MinimalDoc, HeadlessDoc, HeadlessTaggedDoc}

Range(l) == {l[i] : i \in 1..Len(l)}

InitProcess ==
    /\ entries \in Listings
    /\ disk \in {d \in [Range(entries) -> {Text(doc) : doc \in FileDocs}] :
                    \A f \in Range(entries) :
                        ~IsHtmlFile(f) => d[f] = Text(MinimalDoc)}
    /\ disk0 = disk
    /\ backupDir \in BOOLEAN
    /\ backup = [f \in Range(entries) |-> Absent]
    /\ html_files = <<>>
    /\ idx = 0
    /\ pc = "start"
    /\ original_content = NoDoc
    /\ improved_content = NoDoc
    /\ reports = <<>>
    /\ faults = 0
    /\ ResolverIdle
    /\ AnnotatorIdle

NextProcess ==
    \/ Start
    \/ ReadOk
    \/ ReadFail
    \/ BackupOk
    \/ BackupNoDir
    \/ BackupWriteFail
    \/ ImproveOk
    \/ ImproveRaise
    \/ WriteOk
    \/ WriteOpenFail
    \/ WriteWriteFail

SpecProcess == InitProcess /\ [][NextProcess]_vars

\* ------------------------------------------------------------------------
\* Properties of the file loop
\* ------------------------------------------------------------------------
ReportsOf(f) == {i \in 1..Len(reports) : reports[i].file = f}
Successes == {i \in 1..Len(reports) : reports[i].ok}
Failures == {i \in 1..Len(reports) : ~reports[i].ok}
Headless == {i \in 1..Len(html_files) : ~disk0[html_files[i]].doc.hasHead}

\* C6: at the end of a run every listed file has exactly one report, in
\* listing order; every file reported as processed is annotated on disk and
\* backed up; and a run over 3 files of which one has no <head>, with no
\* other cause of failure, reports 2 successes and 1 failure.
C6_PartialFailure ==
    pc = "done" =>
        /\ Len(reports) = Len(html_files)
        /\ \A i \in 1..Len(html_files) : reports[i].file = html_files[i]
        /\ \A i \in Successes :
               /\ disk[html_files[i]] =
                      Text(improve_seo(disk0[html_files[i]].doc, html_files[i]).out)
               /\ backup[html_files[i]] = disk0[html_files[i]]
        /\ (/\ Len(html_files) = 3
            /\ Cardinality(Headless) = 1
            /\ backupDir
            /\ faults = 0)
           => (Cardinality(Successes) = 2 /\ Cardinality(Failures) = 1)

\* the stage at which a file of the listing failed, "" when it has not
FailedAt(f) ==
    IF \E i \in ReportsOf(f) : ~reports[i].ok
    THEN reports[CHOOSE i \in ReportsOf(f) : ~reports[i].ok].at
    ELSE ""

\* C10: in every state of a run each file still has its start-of-run content
\* or has a backup equal to it; a file is only overwritten after it was
\* backed up and improve_seo returned; a file that failed before the
\* overwrite still has its start-of-run content.
C10_BackupBeforeOverwrite ==
    \A f \in Range(entries) :
        /\ disk[f] = disk0[f] \/ backup[f] = disk0[f]
        /\ disk[f] /= disk0[f] =>
               /\ backup[f] = disk0[f]
               /\ ~improve_seo(disk0[f].doc, f).raised
        /\ FailedAt(f) \in {"read", "backup", "improve"} => disk[f] = disk0[f]
        /\ ~IsHtmlFile(f) => disk[f] = disk0[f] /\ backup[f] = Absent

\* a file was overwritten with its annotated text, another failed at the
\* backup, and a write failed after truncating a third
C10_Witness ==
    /\ pc = "done"
    /\ \E f \in Range(entries) :
           /\ disk[f] = Text(improve_seo(disk0[f].doc, f).out)
           /\ disk[f] /= disk0[f]
           /\ backup[f] = disk0[f]
    /\ \E f \in Range(entries) : disk[f] = Partial /\ backup[f] = disk0[f]
    /\ \E f \in Range(entries) : FailedAt(f) = "improve"

====
